---- MODULE Spec2Model ----
(***************************************************************************)
(* The publish-subscribe event bus of ganglia_common                       *)
(* (src/src/ganglia_common/pubsub/pubsub.py): class PubSub, its dispatch   *)
(* worker thread and the module-level accessor get_pubsub().               *)
(*                                                                         *)
(* Threads.  Client threads call the public API; every Thread object made  *)
(* by start() is a worker.  CPython switches threads between bytecodes, so *)
(* each method is cut into one action per access to shared state           *)
(* (self._running, self._thread, the queue, a subscriber list, the global  *)
(* _instance).  queue.Queue.put/get and list.append/remove/`in` are atomic *)
(* under the interpreter lock and are single steps.                        *)
(***************************************************************************)
EXTENDS Integers, Sequences, FiniteSets, TLC

\* ---------------------------------------------------------------- bounds
MaxEvents == 2      \* publish() calls in one behaviour
MaxWorkers == 2     \* Thread objects start() may create in one behaviour
MaxSubs == 2        \* longest subscriber list of one category
MaxRetries == 4     \* largest max_retries given to exponential_backoff
MaxMessages == 3    \* longest message history given to rotate_session_history

\* ---------------------------------------------------------------- values
Clients == {"t1", "t2"}          \* threads calling the API
BusClients == {"t1"}             \* the caller thread of the bus specification
Workers == 1..MaxWorkers         \* Thread objects, in order of creation
Insts == 1..Cardinality(Clients) \* PubSub objects, in order of construction
Cats == {"A", "B"}               \* EventType members
Callbacks == {"f", "g"}          \* callables passed to subscribe()
None == 0                        \* Python None for object references

\* Event.target: an identifier of the intended component, or None (broadcast)
NoTarget == "none"
Targets == {"u1", NoTarget}
\* Event.source: an identifier of the publishing component, or None
NoSource == "none"
Sources == {"s1", NoSource}
\* the data argument of Event(): None, the empty dict or a dict with entries
NoData == "none"
EmptyData == "empty"
Payloads == {NoData, EmptyData, "p1"}

\* None where an Event is expected: it has none of an Event's attributes
NoEvent == [id |-> 0, event_type |-> "none", data |-> NoData, source |-> NoSource,
            target |-> NoTarget, timestamp |-> 0]
\* Event.__init__: id is unique per event (here: the publish sequence number);
\* data is the argument, or an empty dict when that is None or empty (`data or
\* {}`); source and target are the arguments; timestamp is the clock's reading
\* at construction (here: the sequence number, events being made in sequence)
EventOf(n, c, d, src, tg) ==
    [id |-> n, event_type |-> c, data |-> IF d \in {NoData, EmptyData} THEN EmptyData ELSE d,
     source |-> src, target |-> tg, timestamp |-> n]
\* an Event made with a target and neither data nor source
EventTo(n, c, tg) == EventOf(n, c, NoData, NoSource, tg)
Event(n, c) == EventTo(n, c, NoTarget)

VARIABLES
    _instance,      \* module global _instance: None or a PubSub
    constructed,    \* number of PubSub objects constructed so far
    _running,       \* self._running of each PubSub
    _thread,        \* self._thread of each PubSub: None or a Thread
    _event_queue,   \* self._event_queue of each PubSub
    _subscribers,   \* self._subscribers of each PubSub: category -> list
    wk,             \* each Thread object: position in _process_events and its locals
    cl,             \* each client thread: position in the API call it is in
    published,      \* number of events published so far
    gh,             \* history, per worker, of the dispatch it is in or has just ended
    sinceStop,      \* history, per worker: events it took while _running was False,
                    \* since _running was last set False or seen True by its loop test
    lastInvoked,    \* history: id of the event of the most recent callback invocation
    abandoned,      \* history: ids of the events that were queued when a stop() was
                    \* called and whose dispatch has not ended since
    regs,           \* history: subscribe(c, f) calls less the unsubscribe(c, f) calls
                    \* that found f and removed it, per PubSub
    unsubscribed,   \* history: <<bus, category, callback>> with an unsubscribe returned
                    \* and no subscribe of that callback to that category since
    noop,           \* history: a start() call found _running True and returned
    stopCalled,     \* history, per PubSub: stop() was called and start() has not set
                    \* _running since
    atPublish,      \* history, per event id: the callbacks on the category's list
                    \* when the event was published, for the events in the queue
    sent,           \* history, per event id: the event as it was when published
    rb,             \* one call of exponential_backoff: its position and locals
    rm,             \* one call of rotate_session_history: its position, its locals
                    \* and self.messages
    watch           \* the histories a specification records (fixed by its Init);
                    \* a history that is not recorded keeps its initial value

vars == <<_instance, constructed, _running, _thread, _event_queue, _subscribers,
          wk, cl, published, gh, sinceStop, lastInvoked, abandoned, regs, unsubscribed, noop, stopCalled, watch, atPublish, sent, rb, rm>>

bus == <<_running, _thread, _event_queue, _subscribers>>
\* the states of the two utility functions, which no step of the bus changes
util == <<rb, rm>>
\* the histories (and, for the bus's steps to leave them alone, the utilities)
hist == <<gh, sinceStop, lastInvoked, abandoned, regs, unsubscribed, noop, stopCalled, watch, atPublish, sent, util>>

\* the histories: "dispatch" (gh.snap, calls, kept, changed, raised), "unsub"
\* (regs, unsubscribed, gh.startUnsub, gone), "fifo" (lastInvoked), "stop"
\* (abandoned, sinceStop), "start" (noop), "accessor" (stopCalled), "once" (gh.done),
\* "target" (gh.target), "publish" (atPublish, gh.pub, inv, changed),
\* "coop" (gh.stopped), "put" (gh.put), "event" (sent)
Rec(h, new, old) == IF h \in watch THEN new ELSE old

\* ---------------------------------------------------------------- helpers
Range(s) == {s[k] : k \in 1..Len(s)}

\* list.remove(x): delete the first item equal to x
RECURSIVE Remove(_, _)
Remove(s, x) ==
    IF s = <<>> THEN <<>>
    ELSE IF Head(s) = x THEN Tail(s)
    ELSE <<Head(s)>> \o Remove(Tail(s), x)

\* the place of the first item equal to x in a list that holds one
FirstAt(s, x) == CHOOSE k \in 1..Len(s) : s[k] = x /\ \A j \in 1..(k - 1) : s[j] # x

\* the places d of a list after the item at place p was deleted: the items
\* behind it move up by one
Shifted(d, p) == {k \in d : k < p} \cup {k - 1 : k \in {j \in d : j > p}}

Created == {w \in Workers : wk[w].pc # "unborn"}
Alive == {w \in Workers : wk[w].pc \notin {"unborn", "new", "dead"}}
\* workers inside _dispatch_event
InDispatch(w) == wk[w].pc \in {"for", "call"}
Dispatching(w, i, c) == InDispatch(w) /\ wk[w].bus = i /\ wk[w].event.event_type = c

IdleWorker == [pc |-> "unborn", bus |-> None, event |-> NoEvent, idx |-> 0, cb |-> "none",
               arg |-> NoEvent]
\* history of one dispatch: snap, the list when it began; calls, the callbacks
\* invoked so far; kept, the callbacks on the list at the beginning that no
\* unsubscribe has removed since; changed, whether the list was appended to or
\* removed from since; raised, the place in the list of the first callback that
\* raised (0: none did); startUnsub, the callbacks
\* with an unsubscribe returned before the beginning and no subscribe since;
\* gone, the callbacks with no registration left at the beginning and no subscribe since;
\* done, the places in the list, as it is now, of the entries invoked so far;
\* target, the target of the event; pub, the callbacks on the list when the event was
\* published, and inv, the callbacks invoked so far, both kept for as long as
\* the list is not changed; stopped, whether stop() was called since the beginning;
\* put, whether publish() was called and returned while a callback was running
IdleGhost == [snap |-> <<>>, calls |-> <<>>, kept |-> {}, changed |-> FALSE,
              raised |-> 0, startUnsub |-> {}, gone |-> {}, done |-> {},
              target |-> NoTarget, pub |-> {}, inv |-> {}, stopped |-> FALSE,
              put |-> FALSE]
IdleClient(r) == [pc |-> "idle", self |-> None, gp |-> FALSE, joined |-> None,
                  c |-> "none", f |-> "none", ref |-> r]

\* a call returns to the caller / raises to the caller (the exception propagates
\* out of the API call, through get_pubsub too, and the caller handles it)
Return(c) == [c EXCEPT !.pc = "idle", !.self = None, !.gp = FALSE, !.joined = None,
                       !.c = "none", !.f = "none"]
Raise(c, e) == [Return(c) EXCEPT !.pc = e]
Exceptions == {"AttributeError", "RuntimeError", "ValueError"}
\* the caller begins a call on PubSub i
Call(c, i) == [c EXCEPT !.self = i]

\* Thread objects the behaviour may still create
Pending == {t \in Clients : cl[t].pc \in {"gp_new", "gp_start", "start_set", "start_new"}}
ThreadBudget == Cardinality(Created) + Cardinality(Pending) < MaxWorkers

\* ---------------------------------------------------------------- utilities
\* an exception object: one that the k-th call of func raised, the TypeError of
\* `raise None`, or none
NoException == <<"none", 0>>
ExceptionOf(k) == <<"Exception", k>>
\* a BaseException that is no Exception (KeyboardInterrupt, SystemExit)
BaseExceptionOf(k) == <<"BaseException", k>>
TypeError == <<"TypeError", 0>>

\* exponential_backoff's frame: max_retries, the argument; attempt and
\* last_exception, its locals; calls, the outcome of every call of func so far;
\* slept, the attempt and the delay of every time.sleep so far; ret, the call
\* whose result was returned (0: none); exc, the exception raised to the caller
Backoff(m) == [pc |-> "while", max_retries |-> m, attempt |-> 1,
               last_exception |-> NoException, calls |-> <<>>, slept |-> <<>>,
               ret |-> 0, exc |-> NoException]
\* exponential_backoff is not being called
NoBackoff == [Backoff(0) EXCEPT !.pc = "idle"]

\* rotate_session_history's frame: messages, self.messages, each message its
\* place in the history before the call and the number of words of its content;
\* total_tokens, the local; popped, whether pop(0) was called on an empty list
Rotation(h) == [pc |-> "sum", messages |-> h, total_tokens |-> 0, popped |-> FALSE,
                before |-> h]
\* rotate_session_history is not being called
NoRotation == [Rotation(<<>>) EXCEPT !.pc = "idle"]

\* ---------------------------------------------------------------- PubSub.__init__
\* pubsub.py:76-85: empty list per event type, empty queue, not running, no thread
InitBus(n, h) ==
    /\ _running = [i \in Insts |-> FALSE]
    /\ _thread = [i \in Insts |-> None]
    /\ _event_queue = [i \in Insts |-> <<>>]
    /\ _subscribers = [i \in Insts |-> [c \in Cats |-> <<>>]]
    /\ constructed = n
    /\ wk = [w \in Workers |-> IdleWorker]
    /\ published = 0
    /\ gh = [w \in Workers |-> IdleGhost]
    /\ sinceStop = [w \in Workers |-> 0]
    /\ lastInvoked = 0
    /\ abandoned = {}
    /\ regs = [i \in Insts |-> [c \in Cats |-> [f \in Callbacks |-> 0]]]
    /\ unsubscribed = {}
    /\ noop = FALSE
    /\ stopCalled = [i \in Insts |-> FALSE]
    /\ watch = h
    /\ atPublish = [e \in 0..MaxEvents |-> {}]
    /\ sent = [e \in 0..MaxEvents |-> NoEvent]

\* one PubSub() constructed by the caller, which every client thread holds
InitHeld(h) ==
    /\ InitBus(1, h)
    /\ _instance = None
    /\ cl = [t \in Clients |-> IdleClient(1)]
    /\ rb = NoBackoff
    /\ rm = NoRotation

\* no PubSub yet: the callers will ask get_pubsub() for it
InitAccessor(h) ==
    /\ InitBus(0, h)
    /\ _instance = None
    /\ cl = [t \in Clients |-> IdleClient(None)]
    /\ rb = NoBackoff
    /\ rm = NoRotation

\* ---------------------------------------------------------------- PubSub.start
\* pubsub.py:89-90: `if self._running: return`; the test of start() on PubSub i,
\* reached from a caller (gp = FALSE) or from get_pubsub (gp = TRUE)
StartTestSkipsGuard(c, i) == [Call(c, i) EXCEPT !.pc = "start_set"]
StartTest(c, i) ==
    IF _running[i]
    THEN IF c.gp THEN [Call(c, i) EXCEPT !.pc = "gp_return"] ELSE Return(Call(c, i))
    ELSE [Call(c, i) EXCEPT !.pc = "start_set"]

\* start() called by client t on the PubSub it holds
Start(t) ==
    /\ cl[t].pc = "idle"
    /\ cl[t].ref # None
    /\ ThreadBudget
    /\ cl' = [cl EXCEPT ![t] = StartTest(@, @.ref)]
    /\ noop' = Rec("start", noop \/ cl'[t].pc = "idle", noop)
    /\ UNCHANGED <<_instance, constructed, bus, wk, published, gh, sinceStop, lastInvoked,
                   abandoned, regs, unsubscribed, stopCalled, watch, atPublish, sent, util>>

\* pubsub.py:92: self._running = True
StartSet(t) ==
    /\ cl[t].pc = "start_set"
    /\ _running' = [_running EXCEPT ![cl[t].self] = TRUE]
    /\ cl' = [cl EXCEPT ![t].pc = "start_new"]
    /\ stopCalled' = Rec("accessor", [stopCalled EXCEPT ![cl[t].self] = FALSE], stopCalled)
    /\ UNCHANGED <<_instance, constructed, _thread, _event_queue, _subscribers,
                   wk, published, gh, sinceStop, lastInvoked, abandoned, regs,
                   unsubscribed, noop, watch, atPublish, sent, util>>

\* pubsub.py:93: self._thread = threading.Thread(target=self._process_events, ...)
StartNew(t) ==
    /\ cl[t].pc = "start_new"
    /\ LET w == Cardinality(Created) + 1 IN
        /\ w \in Workers
        /\ wk' = [wk EXCEPT ![w] = [IdleWorker EXCEPT !.pc = "new", !.bus = cl[t].self]]
        /\ _thread' = [_thread EXCEPT ![cl[t].self] = w]
    /\ cl' = [cl EXCEPT ![t].pc = "start_run"]
    /\ UNCHANGED <<_instance, constructed, _running, _event_queue, _subscribers,
                   published, hist>>

\* pubsub.py:94: self._thread.start(); self._thread is read again here, so it is
\* the Thread another start() stored meanwhile (RuntimeError when that one was
\* started already) or None after a stop() (AttributeError)
StartRun(t) ==
    /\ cl[t].pc = "start_run"
    /\ LET w == _thread[cl[t].self] IN
        IF w = None
        THEN /\ cl' = [cl EXCEPT ![t] = Raise(@, "AttributeError")]
             /\ UNCHANGED wk
        ELSE IF wk[w].pc # "new"
        THEN /\ cl' = [cl EXCEPT ![t] = Raise(@, "RuntimeError")]
             /\ UNCHANGED wk
        ELSE /\ wk' = [wk EXCEPT ![w].pc = "while"]
             /\ cl' = [cl EXCEPT ![t] = IF @.gp THEN [@ EXCEPT !.pc = "gp_return"]
                                                 ELSE Return(@)]
    /\ UNCHANGED <<_instance, constructed, bus, published, hist>>

\* the exception an API call raised has reached the caller, which goes on
Handle(t) ==
    /\ cl[t].pc \in Exceptions
    /\ cl' = [cl EXCEPT ![t].pc = "idle"]
    /\ UNCHANGED <<_instance, constructed, bus, wk, published, hist>>

\* ---------------------------------------------------------------- PubSub.stop
\* pubsub.py:99: self._running = False.  The events queued at this moment are
\* recorded, and the count of events each worker takes while stopped restarts.
Stop(t) ==
    /\ cl[t].pc = "idle"
    /\ cl[t].ref # None
    /\ LET i == cl[t].ref IN
        /\ _running' = [_running EXCEPT ![i] = FALSE]
        /\ cl' = [cl EXCEPT ![t] = [Call(@, i) EXCEPT !.pc = "stop_if"]]
        /\ abandoned' = Rec("stop", abandoned \cup {_event_queue[i][k].id :
                                                       k \in 1..Len(_event_queue[i])}, abandoned)
        /\ sinceStop' = Rec("stop", [w \in Workers |-> IF wk[w].bus = i THEN 0
                                                         ELSE sinceStop[w]], sinceStop)
        /\ stopCalled' = Rec("accessor", [stopCalled EXCEPT ![i] = TRUE], stopCalled)
        /\ gh' = [w \in Workers |->
                    IF InDispatch(w) /\ wk[w].bus = i
                    THEN [gh[w] EXCEPT !.stopped = Rec("coop", TRUE, @)]
                    ELSE gh[w]]
    /\ UNCHANGED <<_instance, constructed, _thread, _event_queue, _subscribers,
                   wk, published, lastInvoked, regs, unsubscribed, noop, watch, atPublish, sent, util>>

\* pubsub.py:100: `if self._thread:`
StopIfAlwaysJoins(t) ==
    /\ cl[t].pc = "stop_if"
    /\ cl' = [cl EXCEPT ![t].pc = "stop_join"]
    /\ UNCHANGED <<_instance, constructed, bus, wk, published, hist>>
StopIf(t) ==
    /\ cl[t].pc = "stop_if"
    /\ cl' = [cl EXCEPT ![t] = IF _thread[@.self] = None THEN Return(@)
                                ELSE [@ EXCEPT !.pc = "stop_join"]]
    /\ UNCHANGED <<_instance, constructed, bus, wk, published, hist>>

\* pubsub.py:101: self._thread.join(timeout=1.0) is entered: self._thread is read
\* again (None after another stop(): AttributeError); joining a Thread that was
\* never started raises RuntimeError
StopJoin(t) ==
    /\ cl[t].pc = "stop_join"
    /\ LET w == _thread[cl[t].self] IN
        cl' = [cl EXCEPT ![t] =
                 IF w = None THEN Raise(@, "AttributeError")
                 ELSE IF wk[w].pc = "new" THEN Raise(@, "RuntimeError")
                 ELSE [@ EXCEPT !.pc = "stop_wait", !.joined = w]]
    /\ UNCHANGED <<_instance, constructed, bus, wk, published, hist>>

\* join(timeout=1.0) can time out, the worker still alive, when the worker cannot
\* leave its loop within the second: it is inside a callback, or _running is
\* True again.  A worker polling the queue (timeout 0.1 s) with _running False
\* leaves within the second.
JoinTimesOut(w) == wk[w].pc = "call" \/ _running[wk[w].bus]

\* pubsub.py:101: join returns: the worker has ended, or the timeout passed
StopWait(t) ==
    /\ cl[t].pc = "stop_wait"
    /\ wk[cl[t].joined].pc = "dead" \/ JoinTimesOut(cl[t].joined)
    /\ cl' = [cl EXCEPT ![t].pc = "stop_none"]
    /\ UNCHANGED <<_instance, constructed, bus, wk, published, hist>>

\* pubsub.py:102: self._thread = None
StopNone(t) ==
    /\ cl[t].pc = "stop_none"
    /\ _thread' = [_thread EXCEPT ![cl[t].self] = None]
    /\ cl' = [cl EXCEPT ![t] = Return(@)]
    /\ UNCHANGED <<_instance, constructed, _running, _event_queue, _subscribers,
                   wk, published, hist>>

\* ---------------------------------------------------------------- registry
\* history of a change to category c's list of PubSub i: a dispatch of that
\* category under way no longer runs on an unchanged list
Touched(i, c, sub, unsub) ==
    [w \in Workers |->
        IF Dispatching(w, i, c)
        THEN [gh[w] EXCEPT !.kept = Rec("dispatch", @ \ unsub, @),
                           !.changed = IF watch \cap {"dispatch", "publish"} # {}
                                       THEN TRUE ELSE @,
                           !.pub = {},
                           !.inv = {},
                           !.startUnsub = Rec("unsub", @ \ sub, @),
                           !.gone = Rec("unsub", @ \ sub, @),
                           !.done = IF unsub = {} THEN @
                                    ELSE Shifted(@, FirstAt(_subscribers[i][c],
                                                            CHOOSE f \in unsub : TRUE))]
        ELSE gh[w]]

\* pubsub.py:113-116: the category key always exists (__init__ makes one list
\* per EventType), so the call is self._subscribers[event_type].append(callback)
ListAppendUnique(i, c, f) ==
    /\ Len(_subscribers[i][c]) < MaxSubs
    /\ _subscribers' = [_subscribers EXCEPT ![i][c] =
                            IF f \in Range(@) THEN @ ELSE Append(@, f)]
    /\ gh' = Touched(i, c, {f}, {})
    /\ regs' = Rec("unsub", [regs EXCEPT ![i][c][f] = @ + 1], regs)
    /\ unsubscribed' = Rec("unsub", unsubscribed \ {<<i, c, f>>}, unsubscribed)
ListAppend(i, c, f) ==
    /\ Len(_subscribers[i][c]) < MaxSubs
    /\ _subscribers' = [_subscribers EXCEPT ![i][c] = Append(@, f)]
    /\ gh' = Touched(i, c, {f}, {})
    /\ regs' = Rec("unsub", [regs EXCEPT ![i][c][f] = @ + 1], regs)
    /\ unsubscribed' = Rec("unsub", unsubscribed \ {<<i, c, f>>}, unsubscribed)

\* subscribe(c, f) called by client t
Subscribe(t, c, f) ==
    /\ cl[t].pc = "idle"
    /\ cl[t].ref # None
    /\ ListAppend(cl[t].ref, c, f)
    /\ cl' = [cl EXCEPT ![t] = Return(Call(@, @.ref))]
    /\ UNCHANGED <<_instance, constructed, _running, _thread, _event_queue,
                   wk, published, sinceStop, lastInvoked, abandoned,
                   noop, stopCalled, watch, atPublish, sent, util>>

\* pubsub.py:127-130: `callback in self._subscribers[event_type]`; when it is
\* not, unsubscribe returns having done nothing
Unsubscribe(t, c, f) ==
    /\ cl[t].pc = "idle"
    /\ cl[t].ref # None
    /\ LET i == cl[t].ref IN
        IF f \in Range(_subscribers[i][c])
        THEN /\ cl' = [cl EXCEPT ![t] = [Call(@, i) EXCEPT !.pc = "unsub_remove",
                                                          !.c = c, !.f = f]]
        ELSE /\ cl' = [cl EXCEPT ![t] = Return(Call(@, i))]
    /\ UNCHANGED <<_instance, constructed, bus, wk, published, hist>>

\* pubsub.py:131: self._subscribers[event_type].remove(callback): the first
\* occurrence goes; ValueError when another thread removed the last one meanwhile
RemoveEvery(i, c, f) == SelectSeq(_subscribers[i][c], LAMBDA x : x # f)
RemoveKeepsList(i, c, f) == _subscribers[i][c]
RemoveFirst(i, c, f) == Remove(_subscribers[i][c], f)

UnsubscribeRemove(t) ==
    /\ cl[t].pc = "unsub_remove"
    /\ LET i == cl[t].self
           c == cl[t].c
           f == cl[t].f IN
        IF f \in Range(_subscribers[i][c])
        THEN /\ _subscribers' = [_subscribers EXCEPT ![i][c] = RemoveFirst(i, c, f)]
             /\ gh' = Touched(i, c, {}, {f})
             /\ regs' = Rec("unsub", [regs EXCEPT ![i][c][f] = @ - 1], regs)
             /\ unsubscribed' = Rec("unsub", unsubscribed \cup {<<i, c, f>>}, unsubscribed)
             /\ cl' = [cl EXCEPT ![t] = Return(@)]
        ELSE /\ cl' = [cl EXCEPT ![t] = Raise(@, "ValueError")]
             /\ UNCHANGED <<_subscribers, gh, regs, unsubscribed>>
    /\ UNCHANGED <<_instance, constructed, _running, _thread, _event_queue,
                   wk, published, sinceStop, lastInvoked, abandoned,
                   noop, stopCalled, watch, atPublish, sent, util>>

\* ---------------------------------------------------------------- PubSub.publish
\* pubsub.py:79: queue.Queue() is made with no maxsize: it is never full, and a
\* put on it never waits for a get
QueueFullAtOne(i) == Len(_event_queue[i]) >= 1
QueueFull(i) == FALSE

\* pubsub.py:141: self._event_queue.put(event), which goes through when the
\* queue is not full.  The event is a new Event of category c, made with data d,
\* source src and target tg.
PublishEvent(t, c, d, src, tg) ==
    /\ cl[t].pc = "idle"
    /\ cl[t].ref # None
    /\ published < MaxEvents
    /\ ~QueueFull(cl[t].ref)
    /\ published' = published + 1
    /\ _event_queue' = [_event_queue EXCEPT ![cl[t].ref] =
                            Append(@, EventOf(published + 1, c, d, src, tg))]
    /\ sent' = Rec("event", [sent EXCEPT ![published + 1] =
                                EventOf(published + 1, c, d, src, tg)], sent)
    /\ cl' = [cl EXCEPT ![t] = Return(Call(@, @.ref))]
    /\ atPublish' = Rec("publish", [atPublish EXCEPT ![published + 1] =
                                       Range(_subscribers[cl[t].ref][c])], atPublish)
    /\ gh' = [w \in Workers |->
                IF wk[w].pc = "call" /\ wk[w].bus = cl[t].ref
                THEN [gh[w] EXCEPT !.put = Rec("put", TRUE, @)]
                ELSE gh[w]]
    /\ UNCHANGED <<_instance, constructed, _running, _thread, _subscribers, wk,
                   sinceStop, lastInvoked, abandoned, regs, unsubscribed, noop,
                   stopCalled, watch, util>>

\* publish of an event made with a target and neither data nor source
PublishTo(t, c, tg) == PublishEvent(t, c, NoData, NoSource, tg)

\* publish of a broadcast event (no target given)
Publish(t, c) == PublishTo(t, c, NoTarget)

\* publish of a broadcast event on a bus that is stopped (before the first
\* start(), or after a stop())
PublishStopped(t, c) ==
    /\ cl[t].ref # None
    /\ ~_running[cl[t].ref]
    /\ Publish(t, c)

\* publish(None): pubsub.py:141 puts whatever it is given on the queue, and line
\* 142 formats it into the log line; nothing tests the argument
PublishNone(t) ==
    /\ cl[t].pc = "idle"
    /\ cl[t].ref # None
    /\ published < MaxEvents
    /\ ~QueueFull(cl[t].ref)
    /\ published' = published + 1
    /\ _event_queue' = [_event_queue EXCEPT ![cl[t].ref] = Append(@, NoEvent)]
    /\ cl' = [cl EXCEPT ![t] = Return(Call(@, @.ref))]
    /\ UNCHANGED <<_instance, constructed, _running, _thread, _subscribers, wk, hist>>

\* ---------------------------------------------------------------- worker
\* pubsub.py:146: `while self._running:`; the thread ends when it is False
WhileIgnoresFlag(w) == [wk[w] EXCEPT !.pc = "get"]
WhileDrainsQueue(w) ==
    IF _running[wk[w].bus] \/ _event_queue[wk[w].bus] # <<>> THEN [wk[w] EXCEPT !.pc = "get"]
    ELSE [wk[w] EXCEPT !.pc = "dead"]
While(w) ==
    IF _running[wk[w].bus] THEN [wk[w] EXCEPT !.pc = "get"]
    ELSE [wk[w] EXCEPT !.pc = "dead"]

WhileTest(w) ==
    /\ wk[w].pc = "while"
    /\ wk' = [wk EXCEPT ![w] = While(w)]
    /\ gh' = [gh EXCEPT ![w] = IdleGhost]
    /\ sinceStop' = [sinceStop EXCEPT ![w] =
                        IF _running[wk[w].bus] \/ While(w).pc = "dead" THEN 0 ELSE @]
    /\ UNCHANGED <<_instance, constructed, bus, cl, published,
                   lastInvoked, abandoned, regs, unsubscribed, noop, stopCalled, watch, atPublish, sent, util>>

\* pubsub.py:148: what queue.Queue.get leaves on the queue: it takes the oldest
\* item off, under the queue's own lock
LeftByPeek(q) == q
LeftByGet(q) == Tail(q)

\* pubsub.py:148-152: event = self._event_queue.get(timeout=0.1): the oldest
\* queued event is taken and _dispatch_event entered (line 163: the category is
\* always a key; line 164: iter() over the list itself, position 0); with nothing
\* queued for 0.1 s queue.Empty is raised and the loop continues
Get(w) ==
    /\ wk[w].pc = "get"
    /\ LET i == wk[w].bus
           q == _event_queue[i] IN
        IF q = <<>>
        THEN /\ wk' = [wk EXCEPT ![w].pc = "while"]
             /\ UNCHANGED <<_event_queue, gh, sinceStop, atPublish>>
        ELSE /\ _event_queue' = [_event_queue EXCEPT ![i] = LeftByGet(q)]
             /\ wk' = [wk EXCEPT ![w] = [@ EXCEPT !.pc = "for", !.event = Head(q), !.idx = 0]]
             /\ gh' = [gh EXCEPT ![w] =
                        [snap |-> Rec("dispatch", _subscribers[i][Head(q).event_type], <<>>),
                         calls |-> <<>>, raised |-> 0, changed |-> FALSE,
                         kept |-> Rec("dispatch", Range(_subscribers[i][Head(q).event_type]), {}),
                         startUnsub |-> {f \in Callbacks :
                                          <<i, Head(q).event_type, f>> \in unsubscribed},
                         gone |-> Rec("unsub", {f \in Callbacks :
                                          regs[i][Head(q).event_type][f] = 0}, {}),
                         done |-> {},
                         target |-> Rec("target", Head(q).target, NoTarget),
                         pub |-> atPublish[Head(q).id],
                         inv |-> {},
                         stopped |-> FALSE,
                         put |-> FALSE]]
             /\ atPublish' = [atPublish EXCEPT ![Head(q).id] = {}]
             /\ sinceStop' = Rec("stop", [sinceStop EXCEPT ![w] =
                                            IF _running[i] THEN @ ELSE @ + 1], sinceStop)
    /\ UNCHANGED <<_instance, constructed, _running, _thread, _subscribers, cl,
                   published, lastInvoked, abandoned, regs, unsubscribed,
                   noop, stopCalled, watch, sent, util>>

\* pubsub.py:164: the list iterator: the item at its position in the list as the
\* list is now, or the end of the loop when the position is past the end
NextItemChecksFlag(w) ==
    LET l == _subscribers[wk[w].bus][wk[w].event.event_type] IN
    IF wk[w].idx < Len(l) /\ _running[wk[w].bus] THEN l[wk[w].idx + 1] ELSE "none"
NextItemAtPublish(w) ==
    LET l == SelectSeq(_subscribers[wk[w].bus][wk[w].event.event_type],
                       LAMBDA f : f \in gh[w].pub) IN
    IF wk[w].idx < Len(l) THEN l[wk[w].idx + 1] ELSE "none"
NextItemRoutesTarget(w) ==
    LET l == _subscribers[wk[w].bus][wk[w].event.event_type] IN
    IF wk[w].idx < Len(l) /\ wk[w].event.target = NoTarget THEN l[wk[w].idx + 1] ELSE "none"
NextItemAnyCategory(w) ==
    LET l == _subscribers[wk[w].bus]["A"] IN
    IF wk[w].idx < Len(l) THEN l[wk[w].idx + 1] ELSE "none"
NextItemReversed(w) ==
    LET l == _subscribers[wk[w].bus][wk[w].event.event_type] IN
    IF wk[w].idx < Len(l) THEN l[Len(l) - wk[w].idx] ELSE "none"
NextItem(w) ==
    LET l == _subscribers[wk[w].bus][wk[w].event.event_type] IN
    IF wk[w].idx < Len(l) THEN l[wk[w].idx + 1] ELSE "none"

\* pubsub.py:164: the list iterator moves on by one item with every fetch
NextIndexStays(w) == wk[w].idx
NextIndex(w) == wk[w].idx + 1

\* the worker is back at the loop test, its locals dead
LoopingExits(w) == [wk[w] EXCEPT !.pc = "dead", !.cb = "none", !.event = NoEvent, !.idx = 0,
                                 !.arg = NoEvent]
Looping(w) == [wk[w] EXCEPT !.pc = "while", !.cb = "none", !.event = NoEvent, !.idx = 0,
                            !.arg = NoEvent]

\* pubsub.py:166: callback(event): the argument is the object taken from the queue
DeliveredBroadcast(w) == [wk[w].event EXCEPT !.target = NoTarget]
Delivered(w) == wk[w].event

\* pubsub.py:164-166: the next callback is fetched and called with the event;
\* at the end of the list _dispatch_event returns, task_done() (line 150) is
\* called on the queue and the loop test follows.  When the event is None,
\* event.event_type (line 163) raises AttributeError, which `except Exception`
\* of _process_events (lines 153-154) logs, and the loop test follows.
ForNext(w) ==
    /\ wk[w].pc = "for"
    /\ LET f == IF wk[w].event = NoEvent THEN "none" ELSE NextItem(w) IN
        IF f = "none"
        THEN /\ wk' = [wk EXCEPT ![w] = Looping(w)]
             /\ abandoned' = abandoned \ {wk[w].event.id}
             /\ UNCHANGED <<gh, lastInvoked>>
        ELSE /\ wk' = [wk EXCEPT ![w] = [@ EXCEPT !.pc = "call", !.cb = f, !.idx = NextIndex(w),
                                                  !.arg = Delivered(w)]]
             /\ gh' = [gh EXCEPT ![w].calls = Rec("dispatch", Append(@, f), @),
                                 ![w].done = Rec("once", @ \cup {wk[w].idx + 1}, @),
                                 ![w].inv = IF gh[w].changed THEN @
                                            ELSE Rec("publish", @ \cup {f}, @)]
             /\ lastInvoked' = Rec("fifo", wk[w].event.id, lastInvoked)
             /\ UNCHANGED abandoned
    /\ UNCHANGED <<_instance, constructed, bus, cl, published, sinceStop,
                   regs, unsubscribed, noop, stopCalled, watch, atPublish, sent, util>>

\* pubsub.py:166: callback(event) returns
CallbackReturn(w) ==
    /\ wk[w].pc = "call"
    /\ wk' = [wk EXCEPT ![w] = [@ EXCEPT !.pc = "for", !.cb = "none"]]
    /\ UNCHANGED <<_instance, constructed, bus, cl, published, hist>>

\* pubsub.py:167-168: callback(event) raises an Exception: `except Exception`
\* inside the for loop logs it and the loop goes on with the next item
RaiseLeavesDispatch(w) == Looping(w)
Caught(w) == [wk[w] EXCEPT !.pc = "for", !.cb = "none"]

CallbackRaise(w) ==
    /\ wk[w].pc = "call"
    /\ wk' = [wk EXCEPT ![w] = Caught(w)]
    /\ gh' = [gh EXCEPT ![w].raised = Rec("dispatch", IF @ = 0 THEN wk[w].idx ELSE @, @)]
    /\ UNCHANGED <<_instance, constructed, bus, cl, published, sinceStop,
                   lastInvoked, abandoned, regs, unsubscribed, noop, stopCalled, watch, atPublish, sent, util>>

\* the running callback calls subscribe(c, f) on its bus
CallbackSubscribes(w, c, f) ==
    /\ wk[w].pc = "call"
    /\ ListAppend(wk[w].bus, c, f)
    /\ UNCHANGED <<_instance, constructed, _running, _thread, _event_queue,
                   wk, cl, published, sinceStop, lastInvoked, abandoned,
                   noop, stopCalled, watch, atPublish, sent, util>>

\* the running callback calls unsubscribe(c, f) on its bus (pubsub.py:127-131 run
\* by the worker itself)
CallbackUnsubscribes(w, c, f) ==
    /\ wk[w].pc = "call"
    /\ LET i == wk[w].bus IN
        IF f \in Range(_subscribers[i][c])
        THEN /\ _subscribers' = [_subscribers EXCEPT ![i][c] = RemoveFirst(i, c, f)]
             /\ gh' = Touched(i, c, {}, {f})
             /\ regs' = Rec("unsub", [regs EXCEPT ![i][c][f] = @ - 1], regs)
             /\ unsubscribed' = Rec("unsub", unsubscribed \cup {<<i, c, f>>}, unsubscribed)
        ELSE UNCHANGED <<_subscribers, gh, regs, unsubscribed>>
    /\ UNCHANGED <<_instance, constructed, _running, _thread, _event_queue,
                   wk, cl, published, sinceStop, lastInvoked, abandoned,
                   noop, stopCalled, watch, atPublish, sent, util>>

\* ---------------------------------------------------------------- get_pubsub
\* pubsub.py:178: `if _instance is None:`
GetPubsub(t) ==
    /\ cl[t].pc = "idle"
    /\ _instance = None => ThreadBudget
    /\ cl' = [cl EXCEPT ![t] = [@ EXCEPT !.gp = TRUE,
                                   !.pc = IF _instance = None THEN "gp_new" ELSE "gp_return"]]
    /\ UNCHANGED <<_instance, constructed, bus, wk, published, hist>>

\* pubsub.py:179: _instance = PubSub()
GpNew(t) ==
    /\ cl[t].pc = "gp_new"
    /\ constructed + 1 \in Insts
    /\ constructed' = constructed + 1
    /\ _instance' = constructed + 1
    /\ cl' = [cl EXCEPT ![t].pc = "gp_start"]
    /\ UNCHANGED <<bus, wk, published, hist>>

\* pubsub.py:180: _instance.start(): the global is read again, then start()'s test
GpStartSkipsStart(t) ==
    /\ cl[t].pc = "gp_start"
    /\ cl' = [cl EXCEPT ![t].pc = "gp_return"]
    /\ UNCHANGED <<_instance, constructed, bus, wk, published, hist>>
GpStart(t) ==
    /\ cl[t].pc = "gp_start"
    /\ cl' = [cl EXCEPT ![t] = StartTest(@, _instance)]
    /\ UNCHANGED <<_instance, constructed, bus, wk, published, hist>>

\* pubsub.py:181: return _instance: the global is read again; the caller keeps
\* the returned PubSub
GpReturn(t) ==
    /\ cl[t].pc = "gp_return"
    /\ cl' = [cl EXCEPT ![t] = [Return(@) EXCEPT !.ref = _instance]]
    /\ UNCHANGED <<_instance, constructed, bus, wk, published, hist>>

\* ---------------------------------------------------------------- exponential_backoff
\* no step of a utility function touches the bus
pubsub == <<_instance, constructed, bus, wk, cl, published, gh, sinceStop, lastInvoked,
            abandoned, regs, unsubscribed, noop, stopCalled, watch, atPublish, sent>>

\* retry_utils.py:43: delay * (0.5 + random.random()), random() in [0, 1): the
\* factor, in halves
Jitter == {1, 2}
\* how a call of func ends: it returns, raises an Exception, or raises a
\* BaseException that `except Exception` does not catch
Outcomes == {"returns", "raises", "aborts"}

\* retry_utils.py:32: `while attempt <= max_retries:`; past the loop is line 54
BoWhile ==
    /\ rb.pc = "while"
    /\ rb' = [rb EXCEPT !.pc = IF rb.attempt <= rb.max_retries THEN "call" ELSE "end"]
    /\ UNCHANGED <<pubsub, rm>>

\* retry_utils.py:35: `return func()`: func is called; its result is returned,
\* the Exception it raises is caught at line 36, or what else it raises goes on
\* to the caller
BoCall(o) ==
    /\ rb.pc = "call"
    /\ rb' = [rb EXCEPT !.calls = Append(@, o),
                        !.pc = IF o = "returns" THEN "returned"
                               ELSE IF o = "raises" THEN "except" ELSE "raised",
                        !.ret = IF o = "returns" THEN rb.attempt ELSE @,
                        !.exc = IF o = "aborts" THEN BaseExceptionOf(rb.attempt) ELSE @]
    /\ UNCHANGED <<pubsub, rm>>

\* retry_utils.py:38: `if attempt == max_retries:`
LastAttemptNever(b) == FALSE
LastAttempt(b) == b.attempt = b.max_retries

\* retry_utils.py:37-39: last_exception = error; on the last attempt a bare
\* `raise` lets the caught exception go on to the caller
BoExcept ==
    /\ rb.pc = "except"
    /\ rb' = [rb EXCEPT !.last_exception = ExceptionOf(rb.attempt),
                        !.pc = IF LastAttempt(rb) THEN "raised" ELSE "sleep",
                        !.exc = IF LastAttempt(rb) THEN ExceptionOf(rb.attempt) ELSE @]
    /\ UNCHANGED <<pubsub, rm>>

\* retry_utils.py:41-52: the delay doubles with every attempt (initial_delay is
\* two halves) and is multiplied by the jitter; time.sleep(delay); attempt += 1
BoSleep(j) ==
    /\ rb.pc = "sleep"
    /\ rb' = [rb EXCEPT !.slept = Append(@, <<rb.attempt, (2 ^ (rb.attempt - 1)) * j>>),
                        !.attempt = @ + 1,
                        !.pc = "while"]
    /\ UNCHANGED <<pubsub, rm>>

\* retry_utils.py:54: `raise last_exception`: raising None is a TypeError
\* ("exceptions must derive from BaseException")
BoEnd ==
    /\ rb.pc = "end"
    /\ rb' = [rb EXCEPT !.pc = "raised",
                        !.exc = IF rb.last_exception = NoException THEN TypeError
                                ELSE rb.last_exception]
    /\ UNCHANGED <<pubsub, rm>>

\* ---------------------------------------------------------------- rotate_session_history
\* query_dispatch.py:219: max_tokens = 4097
max_tokens == 4097
\* len(message["content"].split()) of the messages of a history
WordCounts == {0, 1, 2048, 4097, 4098}
\* the histories of n messages: each message with its place and its word count
HistoriesOf(n) == {[k \in 1..n |-> [at |-> k, words |-> c[k]]] : c \in [1..n -> WordCounts]}

\* query_dispatch.py:231-236: count_tokens: the sum of the messages' word counts
RECURSIVE count_tokens(_)
count_tokens(s) == IF s = <<>> THEN 0 ELSE Head(s).words + count_tokens(Tail(s))

\* query_dispatch.py:214-217: total_tokens is summed over self.messages
RotateSum ==
    /\ rm.pc = "sum"
    /\ rm' = [rm EXCEPT !.total_tokens = count_tokens(rm.messages), !.pc = "while"]
    /\ UNCHANGED <<pubsub, rb>>

\* query_dispatch.py:221: `while total_tokens > max_tokens:`
RotateWhile ==
    /\ rm.pc = "while"
    /\ rm' = [rm EXCEPT !.pc = IF rm.total_tokens > max_tokens THEN "pop" ELSE "returned"]
    /\ UNCHANGED <<pubsub, rb>>

\* query_dispatch.py:222: self.messages.pop(0) takes the oldest message away
PopLast(s) == SubSeq(s, 1, Len(s) - 1)
PopFirst(s) == Tail(s)

\* query_dispatch.py:222-224: the oldest message is popped and its word count
\* taken off total_tokens; pop(0) on an empty list raises IndexError
RotatePop ==
    /\ rm.pc = "pop"
    /\ rm' = IF rm.messages = <<>>
             THEN [rm EXCEPT !.popped = TRUE, !.pc = "raised"]
             ELSE [rm EXCEPT !.messages = PopFirst(@),
                             !.total_tokens = @ - Head(rm.messages).words,
                             !.pc = "while"]
    /\ UNCHANGED <<pubsub, rb>>

\* ---------------------------------------------------------------- specifications
\* The worker's loop and dispatch, common to the specifications.
WorkerNext ==
    \/ \E w \in Workers : WhileTest(w)
    \/ \E w \in Workers : Get(w)
    \/ \E w \in Workers : ForNext(w)
    \/ \E w \in Workers : CallbackReturn(w)

StartNext(T) ==
    \/ \E t \in T : Start(t)
    \/ \E t \in T : StartSet(t)
    \/ \E t \in T : StartNew(t)
    \/ \E t \in T : StartRun(t)

StopNext(T) ==
    \/ \E t \in T : Stop(t)
    \/ \E t \in T : StopIf(t)
    \/ \E t \in T : StopJoin(t)
    \/ \E t \in T : StopWait(t)
    \/ \E t \in T : StopNone(t)

AccessorNext(T) ==
    \/ \E t \in T : GetPubsub(t)
    \/ \E t \in T : GpNew(t)
    \/ \E t \in T : GpStart(t)
    \/ \E t \in T : GpReturn(t)

\* Dispatch: one PubSub that a caller thread starts, subscribes to, unsubscribes
\* from and publishes on, callbacks that return, raise, subscribe and unsubscribe.
\* Events and subscriptions are of one category.
Next ==
    \/ StartNext(BusClients)
    \/ \E t \in BusClients, f \in Callbacks : Subscribe(t, "A", f)
    \/ \E t \in BusClients, f \in Callbacks : Unsubscribe(t, "A", f)
    \/ \E t \in BusClients : UnsubscribeRemove(t)
    \/ \E t \in BusClients : Publish(t, "A")
    \/ \E t \in BusClients : Handle(t)
    \/ WorkerNext
    \/ \E w \in Workers : CallbackRaise(w)
    \/ \E w \in Workers, f \in Callbacks : CallbackSubscribes(w, "A", f)
    \/ \E w \in Workers, f \in Callbacks : CallbackUnsubscribes(w, "A", f)

Init == InitHeld({"dispatch"})
Spec == Init /\ [][Next]_vars

\* the same, recording the history of unsubscribe calls
InitUnsub == InitHeld({"unsub"})
SpecUnsub == InitUnsub /\ [][Next]_vars

\* the same, recording the start() calls that found the bus running
InitStart == InitHeld({"start"})
SpecStart == InitStart /\ [][Next]_vars

\* Dispatch with callbacks that return or raise, the list changed by the caller
\* only.  The interpreter runs every thread again and again and a callback ends,
\* so a worker that can take a step of its loop takes one.
IsolationNext ==
    \/ StartNext(BusClients)
    \/ \E t \in BusClients, f \in Callbacks : Subscribe(t, "A", f)
    \/ \E t \in BusClients : Publish(t, "A")
    \/ WorkerNext
    \/ \E w \in Workers : CallbackRaise(w)

WorkerStep(w) ==
    WhileTest(w) \/ Get(w) \/ ForNext(w) \/ CallbackReturn(w) \/ CallbackRaise(w)

InitIsolation == InitHeld({"dispatch"})
SpecIsolation ==
    InitIsolation /\ [][IsolationNext]_vars /\ \A w \in Workers : WF_vars(WorkerStep(w))

\* Dispatch and lifecycle together: the caller starts and stops the bus, so that
\* more than one worker may be alive, subscribes and publishes, and the callback
\* unsubscribes and subscribes itself while it runs, on any of the workers.  One
\* callback, registered any number of times; the history is of the list entries
\* invoked.
OnceNext ==
    \/ StartNext(BusClients)
    \/ StopNext(BusClients)
    \/ \E t \in BusClients : Subscribe(t, "A", "f")
    \/ \E t \in BusClients : Publish(t, "A")
    \/ WorkerNext
    \/ \E w \in Workers : CallbackSubscribes(w, "A", "f")
    \/ \E w \in Workers : CallbackUnsubscribes(w, "A", "f")

InitOnce == InitHeld({"once"})
SpecOnce == InitOnce /\ [][OnceNext]_vars

\* Two categories: callback f is subscribed to and unsubscribed from category A
\* only, callback g category B only, and events of both categories are published.
CategoryNext ==
    \/ StartNext(BusClients)
    \/ \E t \in BusClients : Subscribe(t, "A", "f")
    \/ \E t \in BusClients : Subscribe(t, "B", "g")
    \/ \E t \in BusClients : Unsubscribe(t, "A", "f")
    \/ \E t \in BusClients : Unsubscribe(t, "B", "g")
    \/ \E t \in BusClients : UnsubscribeRemove(t)
    \/ \E t \in BusClients, c \in Cats : Publish(t, c)
    \/ WorkerNext

InitCategory == InitHeld({})
SpecCategory == InitCategory /\ [][CategoryNext]_vars

\* Targets: events with and without a target are published to callbacks that
\* return.
TargetNext ==
    \/ StartNext(BusClients)
    \/ \E t \in BusClients, f \in Callbacks : Subscribe(t, "A", f)
    \/ \E t \in BusClients, tg \in Targets : PublishTo(t, "A", tg)
    \/ WorkerNext

InitTarget == InitHeld({"dispatch", "target"})
SpecTarget == InitTarget /\ [][TargetNext]_vars

\* Publish time and dispatch time: the caller subscribes and unsubscribes
\* between the publish of an event and its dispatch; callbacks return.
PublishTimeNext ==
    \/ StartNext(BusClients)
    \/ \E t \in BusClients, f \in Callbacks : Subscribe(t, "A", f)
    \/ \E t \in BusClients, f \in Callbacks : Unsubscribe(t, "A", f)
    \/ \E t \in BusClients : UnsubscribeRemove(t)
    \/ \E t \in BusClients : Publish(t, "A")
    \/ WorkerNext

InitPublishTime == InitHeld({"publish"})
SpecPublishTime == InitPublishTime /\ [][PublishTimeNext]_vars

\* the same, recording the history of unsubscribe calls: every unsubscribe is
\* the caller thread's
InitFrame == InitHeld({"unsub"})
SpecFrame == InitFrame /\ [][PublishTimeNext]_vars

\* Null events: the caller publishes events and None.
NullNext ==
    \/ StartNext(BusClients)
    \/ \E t \in BusClients : Subscribe(t, "A", "f")
    \/ \E t \in BusClients : Publish(t, "A")
    \/ \E t \in BusClients : PublishNone(t)
    \/ WorkerNext

InitNull == InitHeld({})
SpecNull == InitNull /\ [][NullNext]_vars

\* Subscriptions only: the caller subscribes callbacks any number of times and
\* never unsubscribes; callbacks return.
SubscribeNext ==
    \/ StartNext(BusClients)
    \/ \E t \in BusClients, f \in Callbacks : Subscribe(t, "A", f)
    \/ \E t \in BusClients : Publish(t, "A")
    \/ WorkerNext

InitSubscribe == InitHeld({"dispatch", "unsub"})
SpecSubscribe == InitSubscribe /\ [][SubscribeNext]_vars

\* the same with the bus never stopped and every callback returning: the
\* interpreter runs the worker thread again and again, so a worker that can take
\* a step of its loop takes one
LoopStep(w) == WhileTest(w) \/ Get(w) \/ ForNext(w) \/ CallbackReturn(w)

InitLive == InitHeld({"dispatch"})
SpecLive == InitLive /\ [][SubscribeNext]_vars /\ \A w \in Workers : WF_vars(LoopStep(w))

\* Lifecycle: one PubSub that a caller thread starts and stops any number of
\* times, subscribes to and publishes on; callbacks return.
LifeNext ==
    \/ StartNext(BusClients)
    \/ StopNext(BusClients)
    \/ \E t \in BusClients : Subscribe(t, "A", "f")
    \/ \E t \in BusClients : Publish(t, "A")
    \/ WorkerNext

InitLife == InitHeld({"fifo", "stop"})
SpecLife == InitLife /\ [][LifeNext]_vars

\* Lifecycle with every event published while the bus is stopped
StoppedNext ==
    \/ StartNext(BusClients)
    \/ StopNext(BusClients)
    \/ \E t \in BusClients : Subscribe(t, "A", "f")
    \/ \E t \in BusClients : PublishStopped(t, "A")
    \/ WorkerNext

InitStopped == InitHeld({"fifo"})
SpecStopped == InitStopped /\ [][StoppedNext]_vars

\* One start(): the caller starts the bus once, stops it any number of times
\* and never starts it again, subscribes and publishes; callbacks return.  The
\* interpreter runs the worker thread again and again, so a worker that can take
\* a step of its loop takes one.
DrainNext ==
    \/ \E t \in BusClients : Created = {} /\ Start(t)
    \/ \E t \in BusClients : StartSet(t)
    \/ \E t \in BusClients : StartNew(t)
    \/ \E t \in BusClients : StartRun(t)
    \/ StopNext(BusClients)
    \/ \E t \in BusClients, f \in Callbacks : Subscribe(t, "A", f)
    \/ \E t \in BusClients : Publish(t, "A")
    \/ WorkerNext

InitDrain == InitHeld({"stop"})
SpecDrain == InitDrain /\ [][DrainNext]_vars /\ \A w \in Workers : WF_vars(LoopStep(w))

\* the same, recording each dispatch and the stop() calls made during it
InitCooperative == InitHeld({"dispatch", "coop"})
SpecCooperative == InitCooperative /\ [][LifeNext]_vars

\* Events of every make: the caller publishes events with and without data,
\* source and target to callbacks that return or raise.
EventContents == {<<NoData, NoSource, NoTarget>>, <<EmptyData, "s1", NoTarget>>,
                  <<"p1", "s1", "u1">>}
EventNext ==
    \/ StartNext(BusClients)
    \/ \E t \in BusClients, f \in Callbacks : Subscribe(t, "A", f)
    \/ \E t \in BusClients, x \in EventContents : PublishEvent(t, "A", x[1], x[2], x[3])
    \/ WorkerNext
    \/ \E w \in Workers : CallbackRaise(w)

InitEvent == InitHeld({"event"})
SpecEvent == InitEvent /\ [][EventNext]_vars

\* the same, recording the publish() calls made while a callback runs
InitPublish == InitHeld({"put"})
SpecPublish == InitPublish /\ [][LifeNext]_vars

\* The accessor called by one thread, which also starts, stops, subscribes to and
\* publishes on the PubSub it was given.
SeqNext ==
    \/ AccessorNext(BusClients)
    \/ LifeNext

InitSeq == InitAccessor({"accessor"})
SpecSeq == InitSeq /\ [][SeqNext]_vars

\* The accessor called by two threads at once, each of which also starts and
\* stops the PubSub it was given.
SingletonNext ==
    \/ AccessorNext(Clients)
    \/ StartNext(Clients)
    \/ StopNext(Clients)
    \/ \E t \in Clients : Handle(t)
    \/ \E w \in Workers : WhileTest(w)
    \/ \E w \in Workers : Get(w)

InitSingleton == InitAccessor({})
SpecSingleton == InitSingleton /\ [][SingletonNext]_vars

\* exponential_backoff(func, max_retries) called with any max_retries from 0 on,
\* func returning or raising at every call
BackoffNext ==
    \/ BoWhile
    \/ \E o \in Outcomes : BoCall(o)
    \/ BoExcept
    \/ \E j \in Jitter : BoSleep(j)
    \/ BoEnd

InitBackoff ==
    /\ InitBus(1, {})
    /\ _instance = None
    /\ cl = [t \in Clients |-> IdleClient(1)]
    /\ rb \in {Backoff(m) : m \in 0..MaxRetries}
    /\ rm = NoRotation
SpecBackoff == InitBackoff /\ [][BackoffNext]_vars

\* rotate_session_history() called on any history of up to MaxMessages messages;
\* the method runs on the caller's thread, which goes on until it returns
RotationNext ==
    \/ RotateSum
    \/ RotateWhile
    \/ RotatePop

InitRotation ==
    /\ InitBus(1, {})
    /\ _instance = None
    /\ cl = [t \in Clients |-> IdleClient(1)]
    /\ rb = NoBackoff
    /\ rm \in {Rotation(h) : h \in UNION {HistoriesOf(n) : n \in 0..MaxMessages}}
SpecRotation == InitRotation /\ [][RotationNext]_vars /\ WF_vars(RotationNext)

\* ================================================================ claims
Count(s, x) == Cardinality({k \in 1..Len(s) : s[k] = x})
\* worker w has ended a dispatch and not yet tested its loop again: the history
\* of that dispatch is still there
Ended(w) == wk[w].pc = "while"

\* C1: FIFO dispatch: every callback invocation for an earlier published event
\* happens before any invocation for a later one, so an invocation never is for
\* an event older than the event of the invocation before it.
FifoDispatch ==
    [][\A w \in Workers :
         (wk[w].pc = "for" /\ wk'[w].pc = "call") => wk[w].event.id >= lastInvoked]_vars

\* C2: at most one subscriber callback is executing at any time.
OneCallbackAtATime == Cardinality({w \in Workers : wk[w].pc = "call"}) <= 1

\* C3: under concurrent first access get_pubsub() constructs exactly one PubSub
\* and every caller is given that same one.
SingletonOnce ==
    /\ constructed <= 1
    /\ \A t, u \in Clients :
         (cl[t].ref # None /\ cl[u].ref # None) => cl[t].ref = cl[u].ref

\* C4: a callback that stays registered for the whole dispatch of an event (it
\* was on the list when the dispatch began and no unsubscribe removed it) is
\* invoked for that event exactly as often as it was registered, whatever
\* subscribe and unsubscribe calls ran meanwhile.
RegistrySafe ==
    \A w \in Workers :
        Ended(w) => \A f \in gh[w].kept : Count(gh[w].calls, f) = Count(gh[w].snap, f)

\* C5: failure isolation: when a callback raised during a dispatch (and the list
\* was not changed meanwhile) the worker is alive at its loop and every callback
\* of the list, those after the raising one included, was invoked with the event.
\* Every way a callback ends, the raise too, leaves the worker in the same
\* dispatch at the same place of the list, and leaves the queue alone.  The event
\* at the head of the queue during a dispatch in which a callback raised is
\* dispatched later.
FailureIsolation ==
    /\ [](\A w \in Workers :
            (Ended(w) /\ gh[w].raised > 0 /\ ~gh[w].changed) => gh[w].calls = gh[w].snap)
    /\ [][\A w \in Workers :
            (wk[w].pc = "call" /\ wk'[w].pc # "call") =>
                /\ wk'[w] = [wk[w] EXCEPT !.pc = "for", !.cb = "none"]
                /\ _event_queue' = _event_queue]_vars
    /\ \A n \in 1..MaxEvents :
            (\E w \in Workers :
                /\ InDispatch(w) /\ gh[w].raised > 0
                /\ _event_queue[wk[w].bus] # <<>> /\ Head(_event_queue[wk[w].bus]).id = n)
            ~> (\E w \in Workers : InDispatch(w) /\ wk[w].event.id = n)
FailureIsolationWitness ==
    \E w \in Workers :
        /\ Ended(w) /\ gh[w].raised = 1 /\ ~gh[w].changed
        /\ Len(gh[w].snap) = 2 /\ gh[w].calls = gh[w].snap
        /\ _event_queue[wk[w].bus] # <<>>

AccessorReturnsRunning ==
    [][\A t \in Clients :
         (cl[t].pc = "gp_return" /\ cl'[t].pc = "idle") => _running[_instance]]_vars
\* C7 as amended: get_pubsub() called from one thread returns the one PubSub ever
\* constructed, and it is running when returned unless stop() was called on it
\* since it was last started.
AccessorReturnsShared ==
    [][\A t \in Clients :
         (cl[t].pc = "gp_return" /\ cl'[t].pc = "idle") =>
            /\ constructed = 1
            /\ cl'[t].ref = 1
            /\ _running[1] \/ stopCalled[1]]_vars
AccessorReturnsSharedWitness ==
    \E t \in Clients :
        /\ cl[t].pc = "gp_return" /\ cl[t].ref = 1
        /\ ~_running[1] /\ stopCalled[1]

\* C8: start() on a running bus does nothing: however often start() is called,
\* one Thread is created, and after a start() that found the bus running the
\* bus is running with that one worker alive.
IdempotentStart ==
    /\ Cardinality(Created) <= 1
    /\ noop => (_running[1] /\ Cardinality(Alive) = 1)
IdempotentStartWitness == noop /\ Cardinality(Alive) = 1 /\ _running[1]

\* C9 as claimed: a callback with an unsubscribe returned (and no subscribe since)
\* before the dispatch of an event began is not invoked for that event.
UnsubscribeSilences ==
    \A w \in Workers : wk[w].pc = "call" => wk[w].cb \notin gh[w].startUnsub
\* C9 as amended: a callback whose registrations were all removed (every subscribe
\* matched by an unsubscribe that found it) before the dispatch of an event began,
\* and that was not subscribed again since, is not invoked for that event.
UnsubscribeLastSilences ==
    \A w \in Workers : wk[w].pc = "call" => wk[w].cb \notin gh[w].gone
UnsubscribeLastSilencesWitness ==
    \E w \in Workers, f \in Callbacks :
        /\ wk[w].pc = "call" /\ wk[w].cb # f
        /\ f \in gh[w].startUnsub /\ f \in gh[w].gone

\* C10: fan-out: when the list is not changed during a dispatch, the callbacks
\* invoked so far are the list's first entries in registration order, and at the
\* end every entry was invoked exactly once.
FanOut ==
    \A w \in Workers :
        ~gh[w].changed =>
            /\ InDispatch(w) => gh[w].calls = SubSeq(gh[w].snap, 1, wk[w].idx)
            /\ Ended(w) => gh[w].calls = gh[w].snap
FanOutWitness ==
    \E w \in Workers :
        /\ Ended(w) /\ ~gh[w].changed /\ gh[w].calls = <<"f", "g">>
        /\ gh[w].snap = <<"f", "g">>

\* C11: the callbacks invoked for an event are the list as it was when the
\* dispatch of the event began, whatever subscribe and unsubscribe calls took
\* effect during the dispatch.
SnapshotDispatch == \A w \in Workers : Ended(w) => gh[w].calls = gh[w].snap

\* C12: at-most-once delivery: within the dispatch of an event no entry of the
\* list is invoked twice (the entry about to be invoked is not one of those
\* invoked before, wherever unsubscribe calls have moved them), and an event is
\* never in the hands of two workers.
AtMostOnce ==
    /\ [][\A w \in Workers :
            (wk[w].pc = "for" /\ wk'[w].pc = "call") => (wk[w].idx + 1) \notin gh[w].done]_vars
    /\ [](\A w, v \in Workers :
            (w # v /\ InDispatch(w) /\ InDispatch(v)) => wk[w].event.id # wk[v].event.id)
\* a callback unsubscribed and subscribed again while it ran: the second entry
\* invoked is a new one
AtMostOnceWitness ==
    \E w \in Workers :
        /\ wk[w].pc = "call" /\ wk[w].idx = 2 /\ gh[w].done = {2}
        /\ \E v \in Workers : v # w /\ InDispatch(v)

\* C13: category isolation: a callback registered for category A only is never
\* invoked with an event of category B, nor one registered for B only with an
\* event of A.
CategoryIsolation ==
    \A w \in Workers :
        wk[w].pc = "call" =>
            /\ wk[w].cb = "f" => wk[w].event.event_type = "A"
            /\ wk[w].cb = "g" => wk[w].event.event_type = "B"
\* g is invoked with an event of B while f is registered for A
CategoryIsolationWitness ==
    \E w \in Workers :
        /\ wk[w].pc = "call" /\ wk[w].cb = "g" /\ wk[w].event.event_type = "B"
        /\ _subscribers[wk[w].bus]["A"] = <<"f">>
        /\ wk[w].event.id = 2

\* C14: the bus does not read the target: for every target, none included, the
\* callbacks invoked for an event are the entries of the list in their order
\* (so two events that differ in target only are delivered alike), the event
\* reaches the callbacks with the target it was published with, and an event
\* with a target is not dropped: at the end of its dispatch every entry of an
\* unchanged list was invoked.
TargetBlind ==
    \A tg \in Targets : \A w \in Workers :
        (gh[w].target = tg /\ ~gh[w].changed) =>
            /\ InDispatch(w) => /\ wk[w].event.target = tg
                                /\ gh[w].calls = SubSeq(gh[w].snap, 1, wk[w].idx)
            /\ Ended(w) => gh[w].calls = gh[w].snap
\* an event with target u1 was delivered to both callbacks
TargetBlindWitness ==
    \E w \in Workers :
        /\ Ended(w) /\ gh[w].target = "u1" /\ ~gh[w].changed
        /\ gh[w].calls = <<"f", "g">>

\* C15: the list of dispatch time, not of publish time: when the dispatch of
\* event e ends (the list not changed while it lasted), a callback that was not
\* on the list when e was published and is on it now, so was when e was
\* dequeued, has been invoked with e, and a callback that was on the list when e
\* was published and is not on it now has not been invoked with e.
DispatchTimeList ==
    [][\A w \in Workers : \A f \in Callbacks :
         (wk[w].pc = "for" /\ wk'[w].pc = "while" /\ ~gh[w].changed) =>
            LET l == _subscribers[wk[w].bus][wk[w].event.event_type] IN
            /\ (f \notin gh[w].pub /\ f \in Range(l)) => f \in gh[w].inv
            /\ (f \in gh[w].pub /\ f \notin Range(l)) => f \notin gh[w].inv]_vars
\* f was unsubscribed and g subscribed between the publish and the dispatch, and
\* the dispatch is about to end
DispatchTimeListWitness ==
    \E w \in Workers :
        /\ wk[w].pc = "for" /\ wk[w].idx = 1 /\ ~gh[w].changed
        /\ _subscribers[wk[w].bus][wk[w].event.event_type] = <<"g">>
        /\ gh[w].pub = {"f"} /\ gh[w].inv = {"g"}

\* C16: cooperative stop: a dispatch during which stop() was called (and the
\* list was not changed) goes on through the list: the callbacks invoked so far
\* are the list's first entries, and when the dispatch has ended every entry
\* was invoked; the worker reads the flag only afterwards, at its loop test.
CooperativeStop ==
    \A w \in Workers :
        (gh[w].stopped /\ ~gh[w].changed) =>
            /\ InDispatch(w) => gh[w].calls = SubSeq(gh[w].snap, 1, wk[w].idx)
            /\ Ended(w) => gh[w].calls = gh[w].snap
\* stop() was called during the first of two invocations and both were made
CooperativeStopWitness ==
    \E w \in Workers :
        /\ Ended(w) /\ gh[w].stopped /\ ~gh[w].changed
        /\ gh[w].calls = <<"f", "f">> /\ ~_running[wk[w].bus]

\* C17: publish(None) fails at the call site: None is never put on the queue and
\* never reaches the dispatch worker.
NullRejected ==
    /\ \A i \in Insts : \A k \in 1..Len(_event_queue[i]) : _event_queue[i][k] # NoEvent
    /\ \A w \in Workers : InDispatch(w) => wk[w].event # NoEvent

\* C18: unsubscribe(category, callback), called by one thread at a time: it takes
\* away exactly the first occurrence of callback in category's list and leaves
\* the other entries in their order; it goes on to remove only when callback is
\* on the list, and otherwise returns with the registry as it was; it raises
\* nothing.  No step but a subscribe's append changes a list otherwise.
UnsubscribeFrame ==
    /\ [](\A t \in Clients :
            /\ cl[t].pc \notin Exceptions
            /\ cl[t].pc = "unsub_remove" =>
                  cl[t].f \in Range(_subscribers[cl[t].self][cl[t].c]))
    /\ [][\A i \in Insts : \A c \in Cats :
            LET l == _subscribers[i][c]
                m == _subscribers'[i][c] IN
            m # l =>
                \/ \E f \in Callbacks : m = Append(l, f)
                \/ \E t \in Clients :
                     /\ cl[t].pc = "unsub_remove" /\ cl[t].self = i /\ cl[t].c = c
                     /\ cl'[t].pc = "idle"
                     /\ LET p == FirstAt(l, cl[t].f) IN
                        m = SubSeq(l, 1, p - 1) \o SubSeq(l, p + 1, Len(l))]_vars
\* f was registered twice and one unsubscribe has removed one registration
UnsubscribeFrameWitness ==
    /\ <<1, "A", "f">> \in unsubscribed
    /\ _subscribers[1]["A"] = <<"f">> /\ regs[1]["A"]["f"] = 1
    /\ \A t \in Clients : cl[t].pc = "idle"

\* C19: no uniqueness test: with no unsubscribe ever, when the dispatch of an
\* event ends every callback has been invoked with it as often as it was
\* subscribed to the event's category, twice when it was subscribed twice.
DuplicateSubscriptions ==
    [][\A w \in Workers : \A f \in Callbacks :
         (wk[w].pc = "for" /\ wk'[w].pc = "while") =>
            Count(gh[w].calls, f) = regs[wk[w].bus][wk[w].event.event_type][f]]_vars
\* f was subscribed twice and invoked twice with the second event
DuplicateSubscriptionsWitness ==
    \E w \in Workers :
        /\ wk[w].pc = "for" /\ wk[w].idx = 2 /\ wk[w].event.id = 2
        /\ gh[w].calls = <<"f", "f">> /\ regs[wk[w].bus]["A"]["f"] = 2

\* C20: liveness: with the bus running (a worker alive, no stop()) and callbacks
\* that return, every event on the queue is dequeued later, and every callback
\* that is on the list of its category when it is dequeued is invoked with it
\* later.
EventuallyDelivered ==
    \A n \in 1..MaxEvents :
        /\ (/\ Alive # {}
            /\ \E i \in Insts : \E k \in 1..Len(_event_queue[i]) : _event_queue[i][k].id = n)
           ~> (\E w \in Workers : InDispatch(w) /\ wk[w].event.id = n)
        /\ \A f \in Callbacks :
             (\E w \in Workers : /\ wk[w].pc = "for" /\ wk[w].idx = 0 /\ wk[w].event.id = n
                                 /\ f \in Range(gh[w].snap))
             ~> (\E w \in Workers : wk[w].pc = "call" /\ wk[w].event.id = n /\ wk[w].cb = f)
\* the second event waits on the queue while the first is being dispatched to
\* two callbacks
EventuallyDeliveredWitness ==
    \E w \in Workers :
        /\ wk[w].pc = "for" /\ wk[w].idx = 0 /\ wk[w].event.id = 1
        /\ gh[w].snap = <<"f", "g">>
        /\ _event_queue[wk[w].bus] # <<>> /\ Head(_event_queue[wk[w].bus]).id = 2

\* C21: publish never waits for dispatch: a caller that is not inside another
\* call can always publish, whether a worker is inside a callback, the bus is
\* stopped or events are queued already; the one step of publish appends the
\* event at the end of the queue and returns to the caller, and in it no worker
\* moves (no callback is invoked) and the registry stays as it is.
PublishNeverWaits ==
    /\ [](\A t \in BusClients :
            (cl[t].pc = "idle" /\ published < MaxEvents) => ENABLED Publish(t, "A"))
    /\ [][published' # published =>
            /\ \E t \in BusClients :
                 /\ cl[t].pc = "idle" /\ cl'[t].pc = "idle"
                 /\ _event_queue' = [_event_queue EXCEPT ![cl[t].ref] =
                                        Append(@, Event(published + 1, "A"))]
            /\ wk' = wk
            /\ _subscribers' = _subscribers
            /\ _running' = _running]_vars
\* publish returned while a callback was running on a bus that stop() had
\* stopped, and its event waits on the queue
PublishNeverWaitsWitness ==
    \E w \in Workers :
        /\ wk[w].pc = "call" /\ gh[w].put /\ ~_running[wk[w].bus]
        /\ _event_queue[wk[w].bus] # <<>>

\* C22: stop() on a stopped bus is a no-op: called by a thread while the bus is
\* not running, its first step finds no worker thread stored and leaves the
\* flag, the thread, the queue and the registry as they are, its second step
\* returns and leaves them so too, and no exception reaches the caller; a stop()
\* that returns always leaves the bus stopped with no thread stored, so a second
\* stop() right after it is such a call.
StopStoppedNoop ==
    /\ [](\A t \in BusClients : cl[t].pc \notin Exceptions)
    /\ [][\A t \in BusClients :
            LET i == cl[t].ref IN
            /\ (cl[t].pc = "idle" /\ cl'[t].pc = "stop_if" /\ ~_running[i]) =>
                  /\ _thread[i] = None
                  /\ bus' = bus /\ wk' = wk
            /\ (cl[t].pc = "stop_if" /\ cl'[t].pc # "stop_if" /\ _thread[i] = None) =>
                  /\ cl'[t].pc = "idle"
                  /\ bus' = bus /\ wk' = wk
            /\ (cl[t].pc \in {"stop_if", "stop_none"} /\ cl'[t].pc = "idle") =>
                  /\ ~_running'[i]
                  /\ _thread'[i] = None]_vars
\* a second stop() has been called on a bus that was started and stopped, with
\* an event queued and a callback registered
StopStoppedNoopWitness ==
    \E t \in BusClients :
        /\ cl[t].pc = "stop_if" /\ _thread[1] = None /\ ~_running[1]
        /\ \A w \in Workers : wk[w].pc = "dead"
        /\ _event_queue[1] # <<>> /\ _subscribers[1]["A"] # <<>>

\* C23: the bus never mutates an event: the event handed to a callback, and
\* every event waiting on the queue, has the id, category, data, source, target
\* and timestamp it had when it was published.
EventUnchanged ==
    /\ \A w \in Workers : wk[w].pc = "call" => wk[w].arg = sent[wk[w].arg.id]
    /\ \A i \in Insts : \A k \in 1..Len(_event_queue[i]) :
         _event_queue[i][k] = sent[_event_queue[i][k].id]
\* the second callback is called with the second event, which was made with
\* data, a source and a target
EventUnchangedWitness ==
    \E w \in Workers :
        /\ wk[w].pc = "call" /\ wk[w].idx = 2 /\ wk[w].arg.id = 2
        /\ wk[w].arg.data = "p1" /\ wk[w].arg.source = "s1" /\ wk[w].arg.target = "u1"

\* the calls of func that raised, in a list of outcomes
Failures(s) == {k \in 1..Len(s) : s[k] = "raises"}

\* C24: exponential_backoff calls func at most max_retries times; no call
\* follows a call that returned (or one that raised what is no Exception), and
\* when it returns, it returns the result of that call, the last one; it sleeps
\* only after a call that raised an Exception and was not the max_retries-th,
\* once after each such call.
BackoffBounded ==
    /\ Len(rb.calls) <= rb.max_retries
    /\ \A k \in 1..Len(rb.calls) : rb.calls[k] # "raises" => k = Len(rb.calls)
    /\ rb.pc = "returned" => (rb.ret = Len(rb.calls) /\ rb.calls[rb.ret] = "returns")
    /\ \A k \in 1..Len(rb.slept) :
         /\ rb.slept[k][1] = k
         /\ k \in Failures(rb.calls)
         /\ k < rb.max_retries
    /\ rb.pc \in {"while", "call", "returned", "raised", "end"} =>
         Len(rb.slept) = Cardinality(Failures(rb.calls) \ {rb.max_retries})
\* the third call returned after two that raised, each followed by a sleep
BackoffBoundedWitness ==
    /\ rb.pc = "returned" /\ rb.max_retries = 4 /\ rb.ret = 3
    /\ rb.calls = <<"raises", "raises", "returns">> /\ Len(rb.slept) = 2

\* C25: whenever exponential_backoff raises to its caller, for every
\* max_retries, func was called and the exception raised is the one the final
\* call of func raised.
RaisesLastException ==
    rb.pc = "raised" =>
        /\ rb.calls # <<>>
        /\ rb.exc \in {ExceptionOf(Len(rb.calls)), BaseExceptionOf(Len(rb.calls))}

\* list s is what is left of list t when its first items are taken away
IsSuffix(s, t) == Len(s) <= Len(t) /\ s = SubSeq(t, Len(t) - Len(s) + 1, Len(t))

\* C26: rotate_session_history, for every history: the messages are at every
\* moment a suffix of the history before the call (only the oldest are dropped,
\* in order); pop is never called on an empty list; the call returns; and when
\* it has returned count_tokens() is at most 4097.
RotationBounded ==
    /\ [](/\ IsSuffix(rm.messages, rm.before)
          /\ ~rm.popped
          /\ rm.pc = "returned" => count_tokens(rm.messages) <= 4097)
    /\ <>(rm.pc = "returned")
\* of three messages the two oldest were dropped, the first of them longer than
\* the limit by itself, and the one left has exactly 4097 words
RotationBoundedWitness ==
    /\ rm.pc = "returned" /\ Len(rm.before) = 3
    /\ rm.before[1].words = 4098 /\ rm.before[2].words = 1
    /\ rm.messages = <<[at |-> 3, words |-> 4097]>>

\* C27: events published while the bus is stopped are not lost and are
\* delivered in publish order: the queue changes only by a publish appending its
\* event or by a worker taking the oldest event into a dispatch, and an
\* invocation for an event published while stopped never follows an invocation
\* for an event published later.
StoppedPublishDelivered ==
    /\ [][\A i \in Insts :
            LET q == _event_queue[i] IN
            _event_queue'[i] # q =>
                \/ _event_queue'[i] = Append(q, Event(published + 1, "A"))
                \/ /\ q # <<>> /\ _event_queue'[i] = Tail(q)
                   /\ \E w \in Workers : wk[w].pc = "get" /\ wk'[w].pc = "for"
                                         /\ wk'[w].event = Head(q)]_vars
    /\ [][\A w \in Workers :
            (wk[w].pc = "for" /\ wk'[w].pc = "call") => lastInvoked <= wk[w].event.id]_vars

\* the bus of worker w is running
BusRunning(w) == wk[w].bus # None /\ _running[wk[w].bus]

\* C28: once stop() has cleared the flag, with no start() after it, a worker's
\* dequeue is its first since the flag was cleared (it never takes a second
\* event), and the worker, having finished the dispatch of that event, exits: a
\* live worker of a stopped bus is dead later.
StopTakesOneThenExits ==
    /\ [][\A w \in Workers :
            (wk[w].pc = "get" /\ wk'[w].pc = "for" /\ ~_running[wk[w].bus]) =>
                sinceStop[w] = 0]_vars
    /\ \A w \in Workers : (w \in Alive /\ ~BusRunning(w)) ~> wk[w].pc = "dead"
\* the worker is inside a callback for the one event it took after stop(), and
\* another event waits on the queue of the stopped bus
StopTakesOneThenExitsWitness ==
    \E w \in Workers :
        /\ wk[w].pc = "call" /\ sinceStop[w] = 1 /\ ~_running[wk[w].bus]
        /\ _event_queue[wk[w].bus] # <<>>
        /\ \A t \in BusClients : cl[t].pc = "idle"

\* C29: the number of callback invocations for one event is at most the length
\* the category's list had when the dispatch of the event began, whatever the
\* callbacks subscribe while they run.
DispatchBounded == \A w \in Workers : Len(gh[w].calls) <= Len(gh[w].snap)

\* the ids of the events on a queue
Ids(q) == {q[k].id : k \in 1..Len(q)}

\* C30: every published event is dequeued at most once, however many workers
\* are alive: no event is twice on the queue, on the queue and in a worker's
\* hands, or in the hands of two workers; only a publish puts an id on the
\* queue, and a new one; and the step that takes an event off the queue gives it
\* to one worker, the other workers staying as they are, so an id that has left
\* the queue is never taken again.
DequeuedOnce ==
    /\ [](\A i \in Insts :
            /\ Cardinality(Ids(_event_queue[i])) = Len(_event_queue[i])
            /\ \A w \in Workers : InDispatch(w) => wk[w].event.id \notin Ids(_event_queue[i])
            /\ Ids(_event_queue[i]) \subseteq 1..published)
    /\ [](\A w \in Workers : \A v \in Workers \ {w} :
            (InDispatch(w) /\ InDispatch(v)) => wk[w].event.id # wk[v].event.id)
    /\ [][\A i \in Insts :
            /\ Ids(_event_queue'[i]) \subseteq Ids(_event_queue[i]) \cup {published + 1}
            /\ Len(_event_queue'[i]) < Len(_event_queue[i]) =>
                 \E w \in Workers :
                    /\ wk[w].pc = "get" /\ wk'[w].pc = "for"
                    /\ wk'[w].event = Head(_event_queue[i])
                    /\ _event_queue'[i] = Tail(_event_queue[i])
                    /\ \A v \in Workers \ {w} : wk'[v] = wk[v]]_vars
\* two workers are alive, each inside a callback, one with the first event and
\* one with the second
DequeuedOnceWitness ==
    \E w \in Workers : \E v \in Workers \ {w} :
        /\ wk[w].pc = "call" /\ wk[w].event.id = 1
        /\ wk[v].pc = "call" /\ wk[v].event.id = 2

====
